---- MODULE Spec2Model ----
(***************************************************************************)
(* Time-capsule service (src/app.py): creation requests handled by the     *)
(* dashboard route, the encrypted capsule store, the APScheduler job       *)
(* store, and the dispatcher send_time_capsule_email run by the pool.      *)
(***************************************************************************)
EXTENDS Integers, Sequences, FiniteSets, TLC

\* ---------------------------------------------------------------- bounds
MaxClock == 1          \* clock readings 0..MaxClock

\* ---------------------------------------------------------------- inputs
\* request-handling threads of the threaded server, one creation request each
Threads == {1, 2}
\* an uploaded file name as <<stem, extension>>
FileA == <<"a", "txt">>
FileB == <<"b", "pdf">>
FileX == <<"x", "exe">>
UnlockDates == 0..MaxClock
\* the submitted forms: recipient_email, message, uploaded file names.
\* Every recipient holds an "@"; the unlock date and time always parse.
Forms ==
    {[recipient_email |-> "a@b.com", message |-> "hello", names |-> <<FileA, FileB>>],
     [recipient_email |-> "a@b.com", message |-> "bye", names |-> <<>>],
     [recipient_email |-> "c@d.com", message |-> "hello", names |-> <<FileA>>],
     [recipient_email |-> "c@d.com", message |-> "bye", names |-> <<FileX>>],
     [recipient_email |-> "c@d.com", message |-> "", names |-> <<>>]}
ALLOWED_EXTENSIONS ==
    {"txt", "pdf", "png", "jpg", "jpeg", "gif", "doc", "docx", "zip", "mp4", "mov"}

Recipients == {form.recipient_email : form \in Forms}

\* job_id = f"capsule_{timestamp}_{recipient_email}": the pair it is built from
JobIdOf(ts, recipient_email) == <<ts, recipient_email>>

JobIds == (0..MaxClock) \X Recipients

\* filepath = UPLOAD_FOLDER / f"{timestamp}_{filename}"
FilePathOf(ts, filename) == <<ts, filename>>

VARIABLES
    clock,            \* the reading datetime.now() returns
    smtp_configured,  \* TRUE iff SMTP_EMAIL and SMTP_PASSWORD are both set
    capsules,         \* CAPSULES_FOLDER: job_id -> bytes of capsule_<job_id>.enc
    uploads,          \* UPLOAD_FOLDER: the set of file paths that exist
    jobs,             \* the scheduler's job store: job_id -> pending entry
    executing,        \* dispatcher runs submitted to the pool, not yet run
    reqs,             \* per thread: position in dashboard() and its locals
    last,             \* the outcome of the step just taken
    running,          \* TRUE while the process, and so the scheduler, is up
    log               \* per job_id the scheduler has handled: how late, how often run

vars == <<clock, smtp_configured, capsules, uploads, jobs, executing, reqs, last,
          running, log>>

\* ---------------------------------------------------------------- codec
cipher_key == "k"

\* the bytes an interrupted or failed write leaves: an empty file
EmptyBytes == [key |-> "", payload |-> <<>>]

\* cipher.encrypt(json.dumps(capsule_data).encode()): a token bound to the key
encrypt_capsule_data(capsule_data) ==
    [key |-> cipher_key, payload |-> <<capsule_data>>]

\* cipher.decrypt + json.loads; <<>> stands for None (any failure)
decrypt_capsule_data(encrypted_data) ==
    IF encrypted_data.key = cipher_key /\ Len(encrypted_data.payload) = 1
    THEN encrypted_data.payload
    ELSE <<>>

\* load_encrypted_capsule(capsule_path): <<record>> or <<>> for None
load_encrypted_capsule(store, job_id) ==
    IF job_id \in DOMAIN store THEN decrypt_capsule_data(store[job_id]) ELSE <<>>

\* the status the store shows for job_id
StatusOf(store, job_id) ==
    IF job_id \notin DOMAIN store THEN "absent"
    ELSE IF load_encrypted_capsule(store, job_id) = <<>> THEN "unreadable"
    ELSE load_encrypted_capsule(store, job_id)[1].status

\* the set of values a sequence holds
Range(s) == {s[i] : i \in 1..Len(s)}

\* the store with the file of job_id holding bytes
WriteFile(store, job_id, bytes) ==
    [j \in DOMAIN store \cup {job_id} |-> IF j = job_id THEN bytes ELSE store[j]]

\* outcomes of open(path, "wb") followed by f.write(data)
IoOutcomes == {"ok", "open_fail", "write_fail"}

\* ---------------------------------------------------------------- store
allowed_file(filename) == filename[2] \in ALLOWED_EXTENSIONS

\* the record save_encrypted_capsule builds (lines 127-136)
NewCapsuleData(recipient_email, message, unlock_date, files, job_id, now) ==
    [recipient_email |-> recipient_email,
     message |-> message,
     unlock_date |-> unlock_date,
     files |-> files,
     created_at |-> now,
     job_id |-> job_id,
     status |-> "scheduled"]

\* save_encrypted_capsule: the store it leaves; its result is a path iff io = "ok"
save_encrypted_capsule(store, recipient_email, message, unlock_date, files, job_id, now, io) ==
    CASE io = "ok" ->
           WriteFile(store, job_id,
               encrypt_capsule_data(
                   NewCapsuleData(recipient_email, message, unlock_date, files, job_id, now)))
      [] io = "open_fail" -> store
      [] io = "write_fail" -> WriteFile(store, job_id, EmptyBytes)

\* capsule_data["status"] = status; capsule_data["sent_at"] = now (lines 181-182)
WithStatus(capsule_data, status, now) ==
    [k \in DOMAIN capsule_data \cup {"sent_at"} |->
        IF k = "status" THEN status
        ELSE IF k = "sent_at" THEN now
        ELSE capsule_data[k]]

\* update_capsule_status with line 182 left out: sent_at is never written
update_capsule_status_no_sent_at(store, job_id, status, now, io) ==
    LET loaded == load_encrypted_capsule(store, job_id) IN
    IF loaded = <<>> THEN store
    ELSE CASE io = "ok" ->
                WriteFile(store, job_id,
                    encrypt_capsule_data([loaded[1] EXCEPT !.status = status]))
           [] io = "open_fail" -> store
           [] io = "write_fail" -> WriteFile(store, job_id, EmptyBytes)

\* update_capsule_status: the store it leaves; every failure is swallowed
update_capsule_status(store, job_id, status, now, io) ==
    LET loaded == load_encrypted_capsule(store, job_id) IN
    IF loaded = <<>> THEN store
    ELSE CASE io = "ok" ->
                WriteFile(store, job_id,
                    encrypt_capsule_data(WithStatus(loaded[1], status, now)))
           [] io = "open_fail" -> store
           [] io = "write_fail" -> WriteFile(store, job_id, EmptyBytes)

\* ---------------------------------------------------------------- state
IdleReq ==
    [pc |-> "idle", recipient_email |-> "", message |-> "", unlock_date |-> 0,
     files |-> <<>>, job_id |-> <<>>, capsule_path |-> FALSE, before |-> <<>>,
     skipped |-> {}]

\* the thread has answered its request; job_id is the id it generated, if any
DoneReq(job_id) == [IdleReq EXCEPT !.pc = "done", !.job_id = job_id]

\* the outcome record of a step; before/pending are what the step found,
\* skipped the uploaded names that allowed_file turned down, accepted whether
\* the transport was reached and took the message
Outcome(op, job_id, success) ==
    [op |-> op, job_id |-> job_id, success |-> success,
     capsule_saved |-> FALSE, registered |-> FALSE, conflict |-> FALSE,
     before |-> <<>>, pending |-> <<>>, files |-> {}, skipped |-> {},
     existed |-> {}, attached |-> {}, undeleted |-> {},
     readable |-> FALSE, write_ok |-> FALSE, applied |-> FALSE, accepted |-> FALSE,
     listing |-> [capsules |-> {}, count |-> 0]]

Init ==
    /\ clock = 0
    /\ smtp_configured \in BOOLEAN
    /\ capsules = <<>>
    /\ uploads = {}
    /\ jobs = <<>>
    /\ executing = <<>>
    /\ reqs = [t \in Threads |-> IdleReq]
    /\ last = Outcome("init", <<>>, FALSE)
    /\ running = TRUE
    /\ log = <<>>

\* time passes
Tick ==
    /\ clock < MaxClock
    /\ clock' = clock + 1
    /\ last' = Outcome("tick", <<>>, FALSE)
    /\ UNCHANGED <<smtp_configured, capsules, uploads, jobs, executing, reqs, running, log>>

\* ---------------------------------------------------------------- intake
\* line 381 with < for <=: an unlock instant equal to now is let through
IsPast_strict(send_datetime, current_time_ist) == send_datetime < current_time_ist

\* line 381: if send_datetime <= current_time_ist
IsPast(send_datetime, current_time_ist) == send_datetime <= current_time_ist

\* dashboard() POST, lines 341-394: validation, upload, time check, job id
DashboardPost(t) ==
    /\ reqs[t].pc = "idle"
    /\ \A u \in Threads : u < t => reqs[u].pc # "idle"
    /\ \E form \in Forms, unlock_date \in UnlockDates :
        LET recipient_email == form.recipient_email
            message == form.message
            kept == SelectSeq(form.names, allowed_file)
            files == [i \in 1..Len(kept) |-> FilePathOf(clock, kept[i])]
            job_id == JobIdOf(clock, recipient_email)
        IN
        IF message = ""
        THEN \* "Please fill all fields": nothing was touched
             /\ last' = Outcome("reject", <<>>, FALSE)
             /\ reqs' = [reqs EXCEPT ![t] = DoneReq(<<>>)]
             /\ UNCHANGED uploads
        ELSE IF IsPast(unlock_date, clock)
        THEN \* the files just saved are removed again
             /\ uploads' = uploads \ Range(files)
             /\ last' = [Outcome("reject_past", <<>>, FALSE) EXCEPT
                            !.files = Range(files)]
             /\ reqs' = [reqs EXCEPT ![t] = DoneReq(<<>>)]
        ELSE /\ uploads' = uploads \cup Range(files)
             /\ reqs' = [reqs EXCEPT ![t] =
                   [pc |-> "save", recipient_email |-> recipient_email,
                    message |-> message, unlock_date |-> unlock_date,
                    files |-> files, job_id |-> job_id,
                    capsule_path |-> FALSE, before |-> <<>>,
                    skipped |-> Range(form.names) \ Range(kept)]]
             /\ last' = [Outcome("post", job_id, FALSE) EXCEPT
                            !.files = Range(files),
                            !.skipped = Range(form.names) \ Range(kept)]
    /\ UNCHANGED <<clock, smtp_configured, capsules, jobs, executing, running, log>>

\* dashboard() lines 396-399: capsule_path = save_encrypted_capsule(...)
SaveCapsule(t) ==
    /\ reqs[t].pc = "save"
    /\ \E io \in IoOutcomes :
        LET r == reqs[t]
            found == IF r.job_id \in DOMAIN capsules THEN <<capsules[r.job_id]>> ELSE <<>>
        IN
        /\ capsules' = save_encrypted_capsule(capsules, r.recipient_email, r.message,
                           r.unlock_date, r.files, r.job_id, clock, io)
        /\ reqs' = [reqs EXCEPT ![t].pc = "schedule",
                                ![t].capsule_path = (io = "ok"),
                                ![t].before = found]
        /\ last' = [Outcome("save", r.job_id, io = "ok") EXCEPT
                       !.capsule_saved = (io = "ok"), !.before = found]
    /\ UNCHANGED <<clock, smtp_configured, uploads, jobs, executing, running, log>>

\* add_job called with replace_existing=True: a pending entry is overwritten
add_job_replace_existing(jobstore, job_id, entry, db_ok) ==
    IF ~db_ok
    THEN [raised |-> TRUE, jobs |-> jobstore]
    ELSE [raised |-> FALSE, jobs |-> WriteFile(jobstore, job_id, entry)]

\* scheduler.add_job(..., id=job_id, replace_existing=False), lines 402-416:
\* raises on a pending entry with the same id or on a job-store failure
add_job(jobstore, job_id, entry, db_ok) ==
    IF ~db_ok \/ job_id \in DOMAIN jobstore
    THEN [raised |-> TRUE, jobs |-> jobstore]
    ELSE [raised |-> FALSE, jobs |-> WriteFile(jobstore, job_id, entry)]

\* dashboard() lines 401-444: register the timer, answer, or clean up
AddJob(t) ==
    /\ reqs[t].pc = "schedule"
    /\ \E db_ok \in BOOLEAN :
        LET r == reqs[t]
            entry == [run_date |-> r.unlock_date,
                      args |-> [recipient_email |-> r.recipient_email,
                                message |-> r.message,
                                unlock_date |-> r.unlock_date,
                                files |-> r.files,
                                job_id |-> r.job_id]]
            pending == IF r.job_id \in DOMAIN jobs THEN <<jobs[r.job_id]>> ELSE <<>>
            res == add_job(jobs, r.job_id, entry, db_ok)
        IN
        /\ jobs' = res.jobs
        /\ uploads' = IF res.raised THEN uploads \ Range(r.files) ELSE uploads
        /\ last' = [Outcome("add_job", r.job_id, ~res.raised) EXCEPT
                       !.capsule_saved = r.capsule_path,
                       !.registered = ~res.raised,
                       !.conflict = (pending # <<>>),
                       !.before = r.before,
                       !.pending = pending,
                       !.files = Range(r.files),
                       !.skipped = r.skipped]
    /\ reqs' = [reqs EXCEPT ![t] = DoneReq(reqs[t].job_id)]
    /\ UNCHANGED <<clock, smtp_configured, capsules, executing, running, log>>

\* ---------------------------------------------------------------- scheduler
\* the running scheduler (lines 86-93) picks up a due one-shot entry: the entry
\* leaves the job store and its handler call is handed to the pool
Fire(job_id) ==
    /\ job_id \in DOMAIN jobs
    /\ jobs[job_id].run_date <= clock
    /\ jobs' = [j \in DOMAIN jobs \ {job_id} |-> jobs[j]]
    /\ executing' = Append(executing, jobs[job_id].args)
    /\ last' = [Outcome("fire", job_id, FALSE) EXCEPT !.pending = <<jobs[job_id]>>]
    /\ UNCHANGED <<clock, smtp_configured, capsules, uploads, reqs, running, log>>

\* ---------------------------------------------------------------- dispatcher
\* what server.login / send_message end in
SendOutcomes == {"ok", "auth", "smtp", "error"}

\* the cleanup of lines 279-287 with the try of line 282 around the whole loop:
\* the first os.remove that raises ends the loop
CleanupFiles_first_failure_ends(disk, attached_files, undeleted) ==
    IF undeleted = {} THEN disk \ attached_files ELSE disk

\* lines 279-287: os.remove of each attached file, a failure being swallowed
CleanupFiles(disk, attached_files, undeleted) ==
    disk \ (attached_files \ undeleted)

\* send_time_capsule_email with the cleanup of lines 279-287 moved out of the
\* success path: the attached files are removed whatever the transport answers
send_time_capsule_email_cleanup_always(store, disk, args, now, creds, attached_files, outcome, io, undeleted) ==
    IF ~creds
    THEN [success |-> FALSE, capsules |-> store, uploads |-> disk]
    ELSE [success |-> (outcome = "ok"),
          capsules |-> update_capsule_status(store, args.job_id,
                           IF outcome = "ok" THEN "sent" ELSE "failed", now, io),
          uploads |-> CleanupFiles(disk, attached_files, undeleted)]

\* send_time_capsule_email with the os.path.exists test of line 238 left out:
\* a listed file that cannot be attached raises into the handler of line 303
send_time_capsule_email_missing_raises(store, disk, args, now, creds, attached_files, outcome, io, undeleted) ==
    IF ~creds
    THEN [success |-> FALSE, capsules |-> store, uploads |-> disk]
    ELSE IF outcome = "ok" /\ attached_files = Range(args.files)
    THEN [success |-> TRUE,
          capsules |-> update_capsule_status(store, args.job_id, "sent", now, io),
          uploads |-> CleanupFiles(disk, attached_files, undeleted)]
    ELSE [success |-> FALSE,
          capsules |-> update_capsule_status(store, args.job_id, "failed", now, io),
          uploads |-> disk]

\* send_time_capsule_email (lines 194-310) run to its return.
\* creds: the credentials check; attached_files: the existing files read without
\* error; outcome: the transport's answer; io: the status write; undeleted: the
\* attached files whose os.remove raises
send_time_capsule_email(store, disk, args, now, creds, attached_files, outcome, io, undeleted) ==
    IF ~creds
    THEN [success |-> FALSE, capsules |-> store, uploads |-> disk]
    ELSE IF outcome = "ok"
    THEN [success |-> TRUE,
          capsules |-> update_capsule_status(store, args.job_id, "sent", now, io),
          uploads |-> CleanupFiles(disk, attached_files, undeleted)]
    ELSE [success |-> FALSE,
          capsules |-> update_capsule_status(store, args.job_id, "failed", now, io),
          uploads |-> disk]

\* a pool worker runs one submitted handler call
Dispatch(i) ==
    /\ i \in 1..Len(executing)
    /\ LET args == executing[i]
           existed == Range(args.files) \cap uploads
       IN
       \E attached_files \in SUBSET existed, outcome \in SendOutcomes,
          io \in IoOutcomes :
       \E undeleted \in SUBSET attached_files :
         LET res == send_time_capsule_email(capsules, uploads, args, clock,
                        smtp_configured, attached_files, outcome, io, undeleted)
         IN
         /\ capsules' = res.capsules
         /\ uploads' = res.uploads
         /\ last' = [Outcome("dispatch", args.job_id, res.success) EXCEPT
                        !.files = Range(args.files),
                        !.accepted = (smtp_configured /\ outcome = "ok"),
                        !.existed = existed,
                        !.attached = attached_files,
                        !.undeleted = undeleted,
                        !.readable =
                            (load_encrypted_capsule(capsules, args.job_id) # <<>>),
                        !.write_ok = (io = "ok"),
                        !.applied = (/\ smtp_configured
                                     /\ io = "ok"
                                     /\ load_encrypted_capsule(capsules, args.job_id) # <<>>)]
    /\ executing' = [k \in 1..(Len(executing) - 1) |->
                        IF k < i THEN executing[k] ELSE executing[k + 1]]
    /\ UNCHANGED <<clock, smtp_configured, jobs, reqs, running, log>>

\* ---------------------------------------------------------------- read paths
\* the summary of lines 476-487 with the message body added to it
CapsuleSummary_with_message(capsule_data) ==
    [job_id |-> capsule_data.job_id,
     recipient |-> capsule_data.recipient_email,
     unlock_date |-> capsule_data.unlock_date,
     created_at |-> capsule_data.created_at,
     status |-> capsule_data.status,
     has_files |-> Len(capsule_data.files) > 0,
     file_count |-> Len(capsule_data.files),
     message |-> capsule_data.message]

\* the summary list_capsules builds of one decrypted record (lines 476-487)
CapsuleSummary(capsule_data) ==
    [job_id |-> capsule_data.job_id,
     recipient |-> capsule_data.recipient_email,
     unlock_date |-> capsule_data.unlock_date,
     created_at |-> capsule_data.created_at,
     status |-> capsule_data.status,
     has_files |-> Len(capsule_data.files) > 0,
     file_count |-> Len(capsule_data.files)]

\* list_capsules (lines 461-489): a record that does not load is passed over;
\* the order of os.listdir is left out, the result is a set
list_capsules(store) ==
    LET loadable == {j \in DOMAIN store : load_encrypted_capsule(store, j) # <<>>}
    IN [capsules |-> {CapsuleSummary(load_encrypted_capsule(store, j)[1]) : j \in loadable},
        count |-> Cardinality(loadable)]

\* GET /capsules
ListCapsules ==
    /\ last' = [Outcome("list", <<>>, TRUE) EXCEPT !.listing = list_capsules(capsules)]
    /\ UNCHANGED <<clock, smtp_configured, capsules, uploads, jobs, executing, reqs, running, log>>

Next ==
    \/ Tick
    \/ \E t \in Threads : DashboardPost(t)
    \/ \E t \in Threads : SaveCapsule(t)
    \/ \E t \in Threads : AddJob(t)
    \/ \E job_id \in JobIds : Fire(job_id)
    \/ \E i \in 1..Cardinality(Threads) : Dispatch(i)
    \/ ListCapsules

Spec == Init /\ [][Next]_vars

\* ---------------------------------------------------------------- claims
\* the bytes stored for job_id, as a sequence of zero or one element
StoredAt(store, job_id) ==
    IF job_id \in DOMAIN store THEN <<store[job_id]>> ELSE <<>>

\* a dispatcher run for job_id is submitted to the pool and has not run yet
IsExecuting(job_id) ==
    \E i \in 1..Len(executing) : executing[i].job_id = job_id

\* C1: when persisting the encrypted record fails during a creation request,
\* the request is aborted: it is answered as not accepted and no timer entry
\* is registered for its job_id.
C1_PersistFailureAborts ==
    (last.op = "add_job" /\ ~last.capsule_saved)
        => (~last.success /\ ~last.registered)

\* C2: the stored status of a record only ever changes from scheduled to sent
\* or from scheduled to failed; a sent or failed record never changes status.
C2_StatusTransitions ==
    [][\A job_id \in JobIds :
          LET old == StatusOf(capsules, job_id)
              new == StatusOf(capsules', job_id)
          IN (/\ old \in {"scheduled", "sent", "failed"}
              /\ new \in {"scheduled", "sent", "failed"}
              /\ old # new)
               => (old = "scheduled" /\ new \in {"sent", "failed"})]_vars

\* C3 as stated: after a dispatcher run that returns success the stored status
\* is sent, sent_at is set and no attached file is left on disk. Stated here
\* for the capsules whose record was stored and readable when the run began.
C3_SuccessMeansSentAndCleaned ==
    (last.op = "dispatch" /\ last.success /\ last.readable)
        => /\ StatusOf(capsules, last.job_id) = "sent"
           /\ "sent_at" \in DOMAIN load_encrypted_capsule(capsules, last.job_id)[1]
           /\ last.attached \cap uploads = {}

\* C3 amended: after a dispatcher run that returns success, every attached
\* file whose removal did not fail is gone from disk, and when the record was
\* stored and readable and the status write succeeded the stored status is
\* sent with sent_at set to the time of the run.
C3_SuccessBestEffort ==
    (last.op = "dispatch" /\ last.success)
        => /\ (last.attached \ last.undeleted) \cap uploads = {}
           /\ last.applied =>
                /\ StatusOf(capsules, last.job_id) = "sent"
                /\ "sent_at" \in DOMAIN load_encrypted_capsule(capsules, last.job_id)[1]
                /\ load_encrypted_capsule(capsules, last.job_id)[1].sent_at = clock

\* C3 witness: a successful run that attached two files, wrote the status and
\* removed both files.
C3_Witness ==
    /\ last.op = "dispatch" /\ last.success /\ last.applied
    /\ Cardinality(last.attached) = 2
    /\ last.undeleted = {}

\* C4: after a dispatcher run that returns failure, whatever the reason, the
\* stored status is failed. Stated here for the runs that found the record
\* stored and readable and whose status write, if made, did not fail.
C4_FailureMeansFailed ==
    (last.op = "dispatch" /\ ~last.success /\ last.readable /\ last.write_ok)
        => StatusOf(capsules, last.job_id) = "failed"

\* C5: a dispatcher run that returns failure deletes no attachment file: each
\* file of the capsule that was on disk before the run is still on disk.
C5_FailureKeepsFiles ==
    (last.op = "dispatch" /\ ~last.success) => last.existed \subseteq uploads

\* C5 witness: the transport refused a message that had both files attached.
C5_Witness ==
    /\ last.op = "dispatch" /\ ~last.success /\ smtp_configured
    /\ Cardinality(last.attached) = 2
    /\ StatusOf(capsules, last.job_id) = "failed"

\* a creation request has written the record of job_id and has yet to register
InFlight(job_id) ==
    \E t \in Threads : reqs[t].pc = "schedule" /\ reqs[t].job_id = job_id

\* C6: records and timer entries form matched pairs: a scheduled record has a
\* pending or executing timer entry with its job_id (or its request is still
\* about to register one), and a pending timer entry has a record.
C6_MatchedPairs ==
    \A job_id \in JobIds :
        /\ StatusOf(capsules, job_id) = "scheduled"
             => (job_id \in DOMAIN jobs \/ IsExecuting(job_id) \/ InFlight(job_id))
        /\ job_id \in DOMAIN jobs => job_id \in DOMAIN capsules

\* C7: the attachment files of an accepted capsule whose record is scheduled
\* are on disk while its timer is pending, and a dispatcher run removes files
\* only when it leaves the record's status sent.
C7_ScheduledKeepsFiles ==
    /\ \A job_id \in DOMAIN jobs :
          StatusOf(capsules, job_id) = "scheduled"
              => Range(jobs[job_id].args.files) \subseteq uploads
    /\ (last.op = "dispatch" /\ ~(last.existed \subseteq uploads))
          => StatusOf(capsules, last.job_id) = "sent"

\* C8: a schedule call for a job_id that already has a pending entry fails, is
\* answered as not accepted, and leaves the first entry's fire time and
\* handler arguments as they were.
C8_DuplicateRejected ==
    (last.op = "add_job" /\ last.conflict)
        => /\ ~last.success
           /\ ~last.registered
           /\ last.job_id \in DOMAIN jobs
           /\ jobs[last.job_id] = last.pending[1]

\* C8 witness: a duplicate was refused while the stored record already holds
\* the second request's message and the timer still holds the first's.
C8_Witness ==
    /\ last.op = "add_job" /\ last.conflict
    /\ StatusOf(capsules, last.job_id) = "scheduled"
    /\ load_encrypted_capsule(capsules, last.job_id)[1].message
          # jobs[last.job_id].args.message

\* C9: a creation request that fails after validation rolls back what it did:
\* its uploaded files are gone and the stored bytes for its job_id are what
\* they were before the request wrote them.
C9_FailureRollsBack ==
    (last.op = "add_job" /\ ~last.success)
        => /\ last.files \cap uploads = {}
           /\ StoredAt(capsules, last.job_id) = last.before

\* C10: no two creation requests of one process lifetime get the same job_id.
C10_JobIdsNeverCollide ==
    \A t, u \in Threads :
        (t # u /\ reqs[t].job_id # <<>> /\ reqs[u].job_id # <<>>)
            => reqs[t].job_id # reqs[u].job_id

C12_DisallowedExtensionRejected ==
    (last.op = "add_job" /\ last.skipped # {})
        => /\ ~last.success
           /\ ~last.registered
           /\ last.job_id \notin DOMAIN capsules

\* C13: a stored record that cannot be decrypted is never treated as absent by
\* the listing: the result of list_capsules accounts for every stored record.
C13_UnreadableSurfaced ==
    last.op = "list" => last.listing.count = Cardinality(DOMAIN capsules)

\* the message bodies the forms carry
Messages == {form.message : form \in Forms} \ {""}

\* the store with the message body of every readable record replaced by m
WithMessages(store, m) ==
    [j \in DOMAIN store |->
        IF load_encrypted_capsule(store, j) = <<>> THEN store[j]
        ELSE encrypt_capsule_data(
                 [load_encrypted_capsule(store, j)[1] EXCEPT !.message = m])]

\* C14: the listing exposes no message body: stores that differ only in the
\* message bodies of their capsules give the same list_capsules result.
C14_ListingHidesMessage ==
    last.op = "list"
        => \A m \in Messages : list_capsules(WithMessages(capsules, m)) = last.listing

\* C14 witness: a listing of two capsules whose message bodies differ.
C14_Witness ==
    /\ last.op = "list"
    /\ last.listing.count = 2
    /\ \E j, k \in DOMAIN capsules :
          /\ load_encrypted_capsule(capsules, j) # <<>>
          /\ load_encrypted_capsule(capsules, k) # <<>>
          /\ load_encrypted_capsule(capsules, j)[1].message
                # load_encrypted_capsule(capsules, k)[1].message

\* C15: the scheduler triggers the dispatcher once per accepted capsule: not
\* before the entry's fire time, not again for a job_id whose run has already
\* set a terminal status, and never as two executions of one job_id at once.
C15_TriggeredOnce ==
    /\ last.op = "fire"
         => /\ last.pending[1].run_date <= clock
            /\ StatusOf(capsules, last.job_id) \notin {"sent", "failed"}
    /\ \A i, k \in 1..Len(executing) :
          i # k => executing[i].job_id # executing[k].job_id

\* ---------------------------------------------------------------- restart
\* job_defaults["misfire_grace_time"] (line 83): the seconds a run may be late
misfire_grace_time == 3600

\* the last second the clock reaches in the restart specification
MaxSeconds == 7202

HalfGrace == misfire_grace_time \div 2

\* the unlock seconds of the capsules accepted before the process stops
RunDates == {HalfGrace, misfire_grace_time}

\* the spans of time that pass in one step
Delays == {HalfGrace - 1, HalfGrace, HalfGrace + 1}

\* the capsules accepted at second 0, none with attachments: recipient -> unlock
Accepted == UNION {[R -> RunDates] : R \in SUBSET Recipients}

\* the timer entry add_job stored for an accepted capsule (lines 402-416)
EntryOf(recipient_email, unlock_date) ==
    [run_date |-> unlock_date,
     args |-> [recipient_email |-> recipient_email,
               message |-> "hello",
               unlock_date |-> unlock_date,
               files |-> <<>>,
               job_id |-> JobIdOf(0, recipient_email)]]

\* the entries of the job store whose run time has come
DueJobs(jobstore, now) ==
    {j \in DOMAIN jobstore : jobstore[j].run_date <= now}

\* no grace time configured: a run is started however late it is
Misfired_no_grace_time(run_date, now) == FALSE

\* the check made before a run is started: it is missed, and not started,
\* when it is later than misfire_grace_time
Misfired(run_date, now) == now - run_date > misfire_grace_time

RECURSIVE SeqOf(_)
\* the members of a finite set in some order
SeqOf(S) ==
    IF S = {} THEN <<>>
    ELSE LET x == CHOOSE y \in S : TRUE IN <<x>> \o SeqOf(S \ {x})

\* one pass of the scheduler over the job store at second now. Every due
\* one-shot entry leaves the store; its handler call goes to the pool unless
\* the run is missed. on_time: the scheduler was up at the run time and woke
\* for it; otherwise the run starts now
ProcessJobs(jobstore, pool, seen, now, on_time) ==
    LET due == DueJobs(jobstore, now)
        started(j) == IF on_time THEN jobstore[j].run_date ELSE now
        missed == {j \in due : Misfired(jobstore[j].run_date, started(j))}
        ran(j) == IF j \in DOMAIN seen THEN seen[j].runs ELSE 0
    IN [jobs |-> [j \in DOMAIN jobstore \ due |-> jobstore[j]],
        executing |-> pool \o [k \in 1..Cardinality(due \ missed) |->
                                  jobstore[SeqOf(due \ missed)[k]].args],
        log |-> [j \in DOMAIN seen \cup due |->
                    IF j \in due
                    THEN [late |-> started(j) - jobstore[j].run_date,
                          down |-> ~on_time,
                          runs |-> ran(j) + (IF j \in missed THEN 0 ELSE 1)]
                    ELSE seen[j]]]

\* the state a process is stopped or started in: capsules were accepted at
\* second 0, their records and timer entries are on disk
InitMisfire ==
    /\ clock = 0
    /\ smtp_configured \in BOOLEAN
    /\ \E accepted \in Accepted :
        LET ids == {JobIdOf(0, r) : r \in DOMAIN accepted} IN
        /\ capsules = [j \in ids |->
                          encrypt_capsule_data(
                              NewCapsuleData(j[2], "hello", accepted[j[2]], <<>>, j, 0))]
        /\ jobs = [j \in ids |-> EntryOf(j[2], accepted[j[2]])]
    /\ uploads = {}
    /\ executing = <<>>
    /\ reqs = [t \in Threads |-> IdleReq]
    /\ last = Outcome("init", <<>>, FALSE)
    /\ running \in BOOLEAN
    /\ log = <<>>

\* d seconds pass; a scheduler that is up starts every run that comes due
Elapse(d) ==
    /\ clock + d <= MaxSeconds
    /\ clock' = clock + d
    /\ LET res == IF running
                  THEN ProcessJobs(jobs, executing, log, clock + d, TRUE)
                  ELSE [jobs |-> jobs, executing |-> executing, log |-> log]
       IN /\ jobs' = res.jobs
          /\ executing' = res.executing
          /\ log' = res.log
    /\ last' = Outcome("elapse", <<>>, TRUE)
    /\ UNCHANGED <<smtp_configured, capsules, uploads, reqs, running>>

\* the process ends: what was handed to the pool and has not run is gone
Stop ==
    /\ running
    /\ running' = FALSE
    /\ executing' = <<>>
    /\ last' = Outcome("stop", <<>>, TRUE)
    /\ UNCHANGED <<clock, smtp_configured, capsules, uploads, jobs, reqs, log>>

\* the process starts: scheduler.start() (line 93) reads the job store and
\* handles what came due while it was down
Start ==
    /\ ~running
    /\ running' = TRUE
    /\ LET res == ProcessJobs(jobs, executing, log, clock, FALSE)
       IN /\ jobs' = res.jobs
          /\ executing' = res.executing
          /\ log' = res.log
    /\ last' = Outcome("start", <<>>, TRUE)
    /\ UNCHANGED <<clock, smtp_configured, capsules, uploads, reqs>>

NextMisfire ==
    \/ \E d \in Delays : Elapse(d)
    \/ Stop
    \/ Start
    \/ \E i \in 1..Cardinality(Threads) : Dispatch(i)

SpecMisfire == InitMisfire /\ [][NextMisfire]_vars

C17_AcceptedRoundTrip ==
    (last.op = "add_job" /\ last.success /\ last.capsule_saved)
        => /\ load_encrypted_capsule(capsules, last.job_id) # <<>>
           /\ LET capsule_data == load_encrypted_capsule(capsules, last.job_id)[1]
                  args == jobs[last.job_id].args
              IN /\ capsule_data.status = "scheduled"
                 /\ capsule_data.recipient_email = args.recipient_email
                 /\ capsule_data.message = args.message
                 /\ capsule_data.unlock_date = args.unlock_date
                 /\ capsule_data.files = args.files

\* C18 as stated: whether a dispatcher run succeeds depends on the credentials
\* and the transport only, never on which attachment files exist, and a
\* successful run removes from disk exactly the files it attached.
C18_ExactlyAttachedDeleted ==
    [][last'.op = "dispatch"
          => /\ last'.success = last'.accepted
             /\ last'.success => uploads' = uploads \ last'.attached]_vars

\* C18, amended: whether a dispatcher run succeeds depends on the credentials
\* and the transport only, never on which attachment files exist; a successful
\* run removes from disk exactly the attached files whose removal did not
\* fail, and no other file.
C18_AttachedDeletedBestEffort ==
    [][last'.op = "dispatch"
          => /\ last'.success = last'.accepted
             /\ last'.success
                  => uploads' = uploads \ (last'.attached \ last'.undeleted)]_vars

\* C18 witness: a successful run for a capsule with two attachments of which
\* one file was missing; the other was attached and removed.
C18_Witness ==
    /\ last.op = "dispatch" /\ last.success
    /\ Cardinality(last.files) = 2
    /\ Cardinality(last.existed) = 1
    /\ last.attached = last.existed
    /\ last.attached \cap uploads = {}

\* C19: once the transport has taken the message, the run reports success
\* whatever the status write and the file removals do; the run never turns the
\* stored status into failed, and every attached file whose own removal did
\* not fail is gone from disk.
C19_BookkeepingFailureSwallowed ==
    [][(last'.op = "dispatch" /\ last'.accepted)
          => /\ last'.success
             /\ StatusOf(capsules', last'.job_id) = "failed"
                  => StatusOf(capsules, last'.job_id) = "failed"
             /\ (last'.attached \ last'.undeleted) \cap uploads' = {}]_vars

\* C19 witness: a successful run whose status write failed, with one attached
\* file whose removal failed and one that was removed.
C19_Witness ==
    /\ last.op = "dispatch" /\ last.accepted /\ last.success
    /\ last.readable /\ ~last.write_ok
    /\ last.undeleted # {}
    /\ last.attached \ last.undeleted # {}
    /\ last.undeleted \subseteq uploads

\* the fields of a capsule record a status update leaves alone
FrameFields ==
    {"recipient_email", "message", "unlock_date", "files", "created_at", "job_id"}

\* C20: a dispatcher run that reaches update_capsule_status leaves the
\* records of all other job_ids as they were, creates no record, and leaves a
\* readable record of its job_id readable with every field other than status
\* and sent_at unchanged.
C20_StatusUpdateFrame ==
    [][(last'.op = "dispatch" /\ smtp_configured)
          => /\ DOMAIN capsules' = DOMAIN capsules
             /\ \A j \in DOMAIN capsules \ {last'.job_id} : capsules'[j] = capsules[j]
             /\ last'.readable
                  => /\ load_encrypted_capsule(capsules', last'.job_id) # <<>>
                     /\ \A k \in FrameFields :
                           load_encrypted_capsule(capsules', last'.job_id)[1][k]
                             = load_encrypted_capsule(capsules, last'.job_id)[1][k]]_vars

\* C21: a status update is all or nothing: a dispatcher run that finds a
\* readable record and whose status write does not complete leaves the stored
\* bytes of that record as they were, so the record is still readable and
\* holds its previous contents.
C21_StatusUpdateAllOrNothing ==
    [][(last'.op = "dispatch" /\ last'.readable /\ ~last'.write_ok)
          => /\ last'.job_id \in DOMAIN capsules'
             /\ capsules'[last'.job_id] = capsules[last'.job_id]
             /\ capsules'[last'.job_id] # EmptyBytes]_vars

====
